---- MODULE Spec2Model ----
(***************************************************************************)
(* Model of the `cast` package: CASTMeta.__init__ (load.py) running        *)
(* convert_cast_df_dict = truncate_and_ffill ; compress_structure          *)
(* (convert.py) on the raw sheets, and compare.by_item_names (compare.py)  *)
(* on two converted CASTMeta objects.                                      *)
(*                                                                         *)
(* A DataFrame is a sequence of rows.  A row is a record                   *)
(*   [label, item, item_name, attrs]                                       *)
(* where label is the row's index label, item / item_name are the first    *)
(* two columns and attrs is the sequence of the remaining columns.  The    *)
(* program's default has four attribute columns (load.py line 50); the     *)
(* model carries two of them, which is what the per-row "all columns"      *)
(* conditions need to be distinguishable from "one column".                *)
(*                                                                         *)
(* A cell is a record [t, s]: t is "nan" (NaN / None), "str" or "float",   *)
(* s is the text of the value as a sequence of character codes.            *)
(***************************************************************************)
EXTENDS Integers, Sequences, FiniteSets, TLC

VARIABLES
    raw,        \* CASTMeta.raw: sheet name -> DataFrame, as read by load_xlsx
    df_t,       \* df_dict_copy_t of convert_cast_df_dict (after truncate_and_ffill)
    data,       \* CASTMeta.data (after compress_structure)
    pc,         \* position inside CASTMeta.__init__
    exc,        \* exception raised by __init__, "none" when none
    heap,       \* object store: id -> DataFrame (the two CASTMeta.data dicts' tables)
    loaded,     \* the object store as it was when both documents were loaded
    casts,      \* <<cast_1, cast_2>>: [spec, data: section -> id]
    result,     \* what the last by_item_names call returned or raised
    first,      \* what the first by_item_names call returned or raised
    repeated,   \* TRUE once by_item_names has been called a second time
    files       \* names of the csv files written so far

vars == <<raw, df_t, data, pc, exc, heap, loaded, casts, result, first, repeated, files>>

convertVars == <<raw, df_t, data, pc, exc>>
diffVars == <<heap, loaded, casts, result, first, repeated, files>>

----------------------------------------------------------------------------
(* Bounds *)

\* Largest number of rows of a raw sheet (the sub-header row included).
MaxRows == 4

\* Largest number of item names per section table handed to by_item_names.
MaxItems == 2

----------------------------------------------------------------------------
(* Cells *)

NaN == [t |-> "nan", s |-> <<>>]
Str(s) == [t |-> "str", s |-> s]
Flt(s) == [t |-> "float", s |-> s]

\* "no label": first_valid_index / last_valid_index return None; labels are >= 0
None == 0 - 1

\* pd.isna on a scalar
isna(c) == c.t = "nan"

\* str(x): 'nan' for NaN, the repr text for a float, the string itself
str(c) == IF c.t = "nan" THEN Str(<<110, 97, 110>>) ELSE Str(c.s)

\* regex ^\s*$ of df.replace: only string cells are matched
IsBlankStr(c) ==
    c.t = "str" /\ \A i \in 1..Len(c.s) : c.s[i] \in {9, 10, 11, 12, 13, 32}

\* python's str ordering: by code point, a proper prefix first
RECURSIVE LexLess(_, _)
LexLess(a, b) ==
    IF a = <<>> THEN b # <<>>
    ELSE IF b = <<>> THEN FALSE
    ELSE IF a[1] # b[1] THEN a[1] < b[1]
    ELSE LexLess(Tail(a), Tail(b))

Min(S) == CHOOSE x \in S : \A y \in S : x <= y
Max(S) == CHOOSE x \in S : \A y \in S : x >= y

\* df.isna().all(axis=1) for one row
RowAllNa(r) ==
    isna(r.item) /\ isna(r.item_name) /\ \A j \in 1..Len(r.attrs) : isna(r.attrs[j])

----------------------------------------------------------------------------
(* convert.truncate_and_ffill, for one DataFrame of the dict *)

\* df.iloc[from:, 0].first_valid_index(); from is a 0-based position
first_valid_index(df, from) ==
    LET P == {p \in (from + 1)..Len(df) : ~isna(df[p].item)}
    IN  IF P = {} THEN None ELSE df[Min(P)].label

\* df.iloc[:, 0].last_valid_index()
last_valid_index(df) ==
    LET P == {p \in 1..Len(df) : ~isna(df[p].item)}
    IN  IF P = {} THEN None ELSE df[Max(P)].label

\* Variant of TailHasAllNaRow that looks for an all-NaN row after the FIRST
\* populated item cell instead of the last one.
TailHasAllNaRowAfterFirst(df) ==
    LET first_row == first_valid_index(df, 1)
        start == IF first_row = None THEN 1 ELSE first_row + 1
    IN  \E p \in start..Len(df) : RowAllNa(df[p])

\* any(df.iloc[last_idx:, :].isna().all(axis=1)); iloc[None:] is the whole frame
TailHasAllNaRow(df) ==
    LET last_idx == last_valid_index(df)
        start == IF last_idx = None THEN 1 ELSE last_idx + 1
    IN  \E p \in start..Len(df) : RowAllNa(df[p])

\* last_row of lines 29-34 (df is not empty)
last_row_of(df) ==
    IF TailHasAllNaRow(df)
    THEN df[Max({p \in 1..Len(df) : RowAllNa(df[p])})].label - 1
    ELSE df[Len(df)].label

\* df.loc[first_row:last_row].dropna(how='all'); a None bound is open
LocDropna(df, first_row, last_row) ==
    LET Keep(r) == /\ (first_row = None \/ r.label >= first_row)
                   /\ r.label <= last_row
                   /\ ~RowAllNa(r)
    IN  SelectSeq(df, Keep)

\* df.iloc[:, 0].fillna(method='ffill'): leading NaNs stay
ffill_item(df) ==
    [p \in 1..Len(df) |->
        LET V == {q \in 1..p : ~isna(df[q].item)}
        IN  IF V = {} THEN df[p] ELSE [df[p] EXCEPT !.item = df[Max(V)].item]]

\* df.iloc[:, 0].apply(lambda x: str(x))
str_item(df) == [p \in 1..Len(df) |-> [df[p] EXCEPT !.item = str(@)]]

\* df.replace(r'^\s*$', np.NaN, regex=True), every column
replace_blank(df) ==
    LET R(c) == IF IsBlankStr(c) THEN NaN ELSE c
    IN  [p \in 1..Len(df) |->
            [df[p] EXCEPT !.item = R(@), !.item_name = R(@),
                          !.attrs = [j \in 1..Len(@) |-> R(@[j])]]]

\* Lines 22-46 for one DataFrame: [err, df].  df.index[-1] of an empty frame
\* raises IndexError.
truncate_and_ffill_df(df) ==
    IF Len(df) = 0
    THEN [err |-> "IndexError", df |-> <<>>]
    ELSE LET first_row == first_valid_index(df, 1)
             last_row == last_row_of(df)
             cut == LocDropna(df, first_row, last_row)
         IN  [err |-> "none", df |-> replace_blank(str_item(ffill_item(cut)))]

----------------------------------------------------------------------------
(* convert.compress_structure, for one DataFrame of the dict *)

\* The distinct non-NaN values of the item column (groupby drops NaN keys)
ItemKeys(df) == {df[p].item : p \in {q \in 1..Len(df) : ~isna(df[q].item)}}

RECURSIVE SortAsc(_)
SortAsc(S) ==
    IF S = {} THEN <<>>
    ELSE LET m == CHOOSE x \in S : \A y \in S : x = y \/ LexLess(x.s, y.s)
         IN  <<m>> \o SortAsc(S \ {m})

\* Variant of GroupKeys for groupby(..., sort=False): keys in first-seen order.
GroupKeysFirstSeen(df) ==
    LET Firsts == {p \in 1..Len(df) :
                     ~isna(df[p].item) /\ \A q \in 1..(p - 1) : df[q].item # df[p].item}
        Pick(r) == r.label \in {df[p].label : p \in Firsts}
        sel == SelectSeq(df, Pick)
    IN  [i \in 1..Len(sel) |-> sel[i].item]

\* df.groupby('item'): sort=True is pandas' default, so the group keys come
\* out in ascending order of the (string) keys
GroupKeys(df) == SortAsc(ItemKeys(df))

\* .agg(lambda x: tuple(x)).reset_index(): one row per key, every other
\* column the tuple of the group's cells in row order, a fresh RangeIndex
groupby_agg_tuple(df) ==
    LET keys == GroupKeys(df)
    IN  [i \in 1..Len(keys) |->
            LET InGroup(r) == r.item = keys[i]
                G == SelectSeq(df, InGroup)
            IN  [label |-> i - 1,
                 item |-> keys[i],
                 item_name |-> [g \in 1..Len(G) |-> G[g].item_name],
                 attrs |-> [j \in 1..Len(G[1].attrs) |->
                              [g \in 1..Len(G) |-> G[g].attrs[j]]]]]

\* python truthiness of a cell: NaN is truthy, '' and 0.0 are falsy
Truthy(c) == ~(c.t = "str" /\ c.s = <<>>) /\ ~(c.t = "float" /\ c.s = <<48, 46, 48>>)

\* line 126: x[0] if x[0] else None (None is a missing value, written NaN here)
first_item_name(x) == IF Truthy(x[1]) THEN x[1] ELSE NaN

\* Variant of ShouldTrim that is satisfied by one column with a NaN first element.
ShouldTrimAnyColumn(attrs) ==
    /\ \A j \in 1..Len(attrs) : Len(attrs[j]) > 1
    /\ \E j \in 1..Len(attrs) : isna(attrs[j][1])

\* lines 86-88: all(lengths > 1) and all first elements NaN
ShouldTrim(attrs) ==
    /\ \A j \in 1..Len(attrs) : Len(attrs[j]) > 1
    /\ \A j \in 1..Len(attrs) : isna(attrs[j][1])

\* line 82: the tuples of one row have different lengths
LengthsDiffer(attrs) ==
    \E j, k \in 1..Len(attrs) : Len(attrs[j]) # Len(attrs[k])

\* convert._remove_first_elem_per_row(df, col_start=2): [err, df].  Every
\* attribute cell of a grouped frame is a tuple, so the check of line 77 passes.
remove_first_elem_per_row(df) ==
    IF \E i \in 1..Len(df) : LengthsDiffer(df[i].attrs)
    THEN [err |-> "ValueError", df |-> <<>>]
    ELSE [err |-> "none",
          df |-> [i \in 1..Len(df) |->
                    IF ShouldTrim(df[i].attrs)
                    THEN [df[i] EXCEPT !.attrs = [j \in 1..Len(@) |-> Tail(@[j])]]
                    ELSE df[i]]]

\* lines 115-129 for one DataFrame: [err, df]
compress_structure_df(df) ==
    LET grouped == groupby_agg_tuple(df)
        named == [i \in 1..Len(grouped) |->
                    [grouped[i] EXCEPT !.item_name = first_item_name(@)]]
    IN  remove_first_elem_per_row(named)

----------------------------------------------------------------------------
(* Raw sheets *)

Sheet == "General Metadata"

K10 == Flt(<<49, 48, 46, 48>>)      \* the number 10.0
K2 == Str(<<50>>)                   \* '2'
KSpace == Str(<<32>>)               \* ' '
NameA == Str(<<65>>)                \* 'A'
ValX == Str(<<120>>)                \* 'x'

Row(k, n, a1, a2) == [item |-> k, item_name |-> n, attrs |-> <<a1, a2>>]

\* The rows a sheet is made of: an empty row, continuation rows of a merged
\* item cell (attribute values only), a comment row, the first physical row
\* of an item (with its name, or with attribute values), and rows whose item
\* cell holds a single space.
RawRows == {
    Row(NaN, NaN, NaN, NaN),
    Row(NaN, NaN, ValX, ValX),
    Row(NaN, NaN, NaN, ValX),
    Row(NaN, NameA, NaN, NaN),
    Row(K2, NameA, NaN, NaN),
    Row(K2, NaN, ValX, ValX),
    Row(K2, NaN, NaN, ValX),
    Row(K10, NameA, NaN, NaN),
    Row(K10, NaN, ValX, ValX),
    Row(KSpace, NaN, NaN, NaN),
    Row(KSpace, NameA, ValX, ValX) }

\* pd.read_excel gives the frame a RangeIndex: labels 0 .. n-1
WithRangeIndex(f) ==
    [p \in 1..Len(f) |->
        [label |-> p - 1, item |-> f[p].item, item_name |-> f[p].item_name,
         attrs |-> f[p].attrs]]

RawFrames == {WithRangeIndex(f) : f \in UNION {[1..n -> RawRows] : n \in 0..MaxRows}}

----------------------------------------------------------------------------
(* CASTMeta.__init__ *)

NoDict == [k \in {} |-> <<>>]

Init ==
    /\ raw \in [{Sheet} -> RawFrames]
    /\ df_t = NoDict
    /\ data = NoDict
    /\ pc = "convert"
    /\ exc = "none"
    /\ heap = <<>>
    /\ loaded = <<>>
    /\ casts = <<>>
    /\ result = [status |-> "none"]
    /\ first = [status |-> "none"]
    /\ repeated = FALSE
    /\ files = {}

\* convert.truncate_and_ffill(df_dict), called by convert_cast_df_dict line 150
TruncateAndFfill ==
    /\ pc = "convert"
    /\ LET out == [k \in DOMAIN raw |-> truncate_and_ffill_df(raw[k])]
           bad == {k \in DOMAIN raw : out[k].err # "none"}
       IN  IF bad # {}
           THEN /\ pc' = "raised"
                /\ exc' = out[CHOOSE k \in bad : TRUE].err
                /\ UNCHANGED df_t
           ELSE /\ pc' = "truncated"
                /\ df_t' = [k \in DOMAIN raw |-> out[k].df]
                /\ UNCHANGED exc
    /\ UNCHANGED <<raw, data>>
    /\ UNCHANGED diffVars

\* convert.compress_structure(df_dict), called by convert_cast_df_dict line 151
CompressStructure ==
    /\ pc = "truncated"
    /\ LET out == [k \in DOMAIN df_t |-> compress_structure_df(df_t[k])]
           bad == {k \in DOMAIN df_t : out[k].err # "none"}
       IN  IF bad # {}
           THEN /\ pc' = "raised"
                /\ exc' = out[CHOOSE k \in bad : TRUE].err
                /\ UNCHANGED data
           ELSE /\ pc' = "done"
                /\ data' = [k \in DOMAIN df_t |-> out[k].df]
                /\ UNCHANGED exc
    /\ UNCHANGED <<raw, df_t>>
    /\ UNCHANGED diffVars

Next == TruncateAndFfill \/ CompressStructure

Spec == Init /\ [][Next]_vars

----------------------------------------------------------------------------
(* Properties of the conversion *)

RawDf == raw[Sheet]
Normalized == pc \in {"truncated", "done"}

\* The sheet has a populated item cell below the sub-header row
HasItem == Len(RawDf) > 0 /\ first_valid_index(RawDf, 1) # None

SourceRow(label) == RawDf[label + 1]

Labels(df) == {df[p].label : p \in 1..Len(df)}
Ascending(df) == \A p, q \in 1..Len(df) : p < q => df[p].label < df[q].label

\* Labels of the entirely empty rows of the sheet, and the first label of the
\* last run of consecutive entirely empty rows
EmptyLabels == {l \in 0..(Len(RawDf) - 1) : RowAllNa(SourceRow(l))}
FinalRunStart ==
    Min({s \in EmptyLabels : \A l \in s..Max(EmptyLabels) : l \in EmptyLabels})

\* The rows that stay when the output starts at the first populated item cell
\* and, if an entirely empty row follows the row `anchor`, ends right before
\* the final run of entirely empty rows
KeptLabels(anchor) ==
    LET lo == first_valid_index(RawDf, 1)
        hi == IF \E e \in EmptyLabels : e > anchor
              THEN FinalRunStart - 1
              ELSE Len(RawDf) - 1
    IN  {l \in lo..hi : l \notin EmptyLabels}

\* C10, as stated: the end of the output is decided by an entirely empty row
\* after the FIRST populated item cell.
C10_TrimAfterFirstItem ==
    (Normalized /\ HasItem) =>
        /\ Labels(df_t[Sheet]) = KeptLabels(first_valid_index(RawDf, 1))
        /\ Ascending(df_t[Sheet])

\* C10, amended: the output of truncate_and_ffill starts at the first populated
\* item cell below the sub-header row; if an entirely empty row follows the
\* LAST populated item cell it ends right before the final run of entirely
\* empty rows, otherwise at the last row of the sheet; in between, every row
\* that is not entirely empty is kept, in source order, and every entirely
\* empty row is dropped.
C10_TrimAfterLastItem ==
    (Normalized /\ HasItem) =>
        /\ Labels(df_t[Sheet]) = KeptLabels(last_valid_index(RawDf))
        /\ Ascending(df_t[Sheet])

\* C10 witness: an entirely empty row follows the last item, and a row with
\* content that follows that empty row is cut off together with it.
C10_Witness ==
    /\ pc = "truncated" /\ HasItem
    /\ \A p \in 1..Len(RawDf) : ~IsBlankStr(RawDf[p].item)
    /\ \E e \in EmptyLabels : e > last_valid_index(RawDf)
    /\ \E l \in 0..(Len(RawDf) - 1) : l > Max(EmptyLabels) /\ l \notin EmptyLabels
    /\ Len(df_t[Sheet]) >= 1
    /\ df_t[Sheet][Len(df_t[Sheet])].label < FinalRunStart

\* The nearest populated item cell at or above a source row
NearestItem(label) ==
    SourceRow(Max({l \in 0..label : ~isna(SourceRow(l).item)})).item

\* C7: after truncate_and_ffill every row has a non-missing item key, a row
\* whose source item cell was empty carries the string form of the nearest
\* preceding non-empty item cell, and the rows keep their source order (stated
\* for sheets that have an item below the sub-header row).
C7_FfillKeyInvariant ==
    (Normalized /\ HasItem) =>
        /\ \A p \in 1..Len(df_t[Sheet]) :
             LET r == df_t[Sheet][p]
             IN  /\ ~isna(r.item)
                 /\ isna(SourceRow(r.label).item) => r.item = str(NearestItem(r.label))
        /\ Ascending(df_t[Sheet])

\* C8: a sheet without a populated item cell below the sub-header row makes
\* truncate_and_ffill fail, and no table is produced for the document.
C8_EmptySectionFails ==
    (pc # "convert" /\ ~HasItem) => (pc = "raised" /\ df_t = NoDict /\ data = NoDict)

\* Position of the first row of df_t that carries the item key k
FirstSeen(k) == Min({p \in 1..Len(df_t[Sheet]) : df_t[Sheet][p].item = k})

OneRowPerKey ==
    /\ {data[Sheet][i].item : i \in 1..Len(data[Sheet])} = ItemKeys(df_t[Sheet])
    /\ Len(data[Sheet]) = Cardinality(ItemKeys(df_t[Sheet]))

\* C9, as stated: the compressed rows are in first-seen order of the keys.
C9_FirstSeenOrder ==
    pc = "done" =>
        /\ OneRowPerKey
        /\ \A i, j \in 1..Len(data[Sheet]) :
             i < j => FirstSeen(data[Sheet][i].item) < FirstSeen(data[Sheet][j].item)

\* C9, amended: the compressed table has one row per distinct non-missing item
\* key, and these rows are in ascending order of the key strings (compared
\* character by character), whatever the order the keys were first seen in.
C9_SortedOrder ==
    pc = "done" =>
        /\ OneRowPerKey
        /\ \A i, j \in 1..Len(data[Sheet]) :
             i < j => LexLess(data[Sheet][i].item.s, data[Sheet][j].item.s)

\* C9 witness: two keys whose first-seen order is the reverse of their order.
C9_Witness ==
    /\ pc = "done" /\ HasItem
    /\ \E i, j \in 1..Len(data[Sheet]) :
         i < j /\ FirstSeen(data[Sheet][i].item) > FirstSeen(data[Sheet][j].item)

\* The rows of df_t of one item key, and column j of that group as a tuple
Group(k) == LET InGroup(r) == r.item = k IN SelectSeq(df_t[Sheet], InGroup)
FullTuple(k, j) == [g \in 1..Len(Group(k)) |-> Group(k)[g].attrs[j]]

\* C6: a compressed row has the first element dropped from every attribute
\* tuple exactly when its group has at least two rows and the first element of
\* every attribute tuple is missing; one element is dropped, from all tuples
\* at once; any other row keeps its tuples, and compression raises nothing.
C6_PlaceholderTrim ==
    /\ pc = "raised" => exc # "ValueError"
    /\ pc = "done" =>
         \A i \in 1..Len(data[Sheet]) :
            LET r == data[Sheet][i]
                G == Group(r.item)
                trim == /\ Len(G) >= 2
                        /\ \A j \in 1..Len(G[1].attrs) : isna(G[1].attrs[j])
            IN  \A j \in 1..Len(r.attrs) :
                   r.attrs[j] = IF trim THEN Tail(FullTuple(r.item, j))
                                ELSE FullTuple(r.item, j)

\* C6 witness: an item of two rows, a placeholder row followed by the row
\* with the attribute values, whose placeholder element was dropped.
C6_Witness ==
    /\ pc = "done" /\ HasItem
    /\ \E i \in 1..Len(data[Sheet]) :
         LET r == data[Sheet][i]
         IN  /\ Len(Group(r.item)) = 2
             /\ \A j \in 1..Len(r.attrs) :
                  /\ isna(Group(r.item)[1].attrs[j])
                  /\ ~isna(Group(r.item)[2].attrs[j])
                  /\ r.attrs[j] = <<Group(r.item)[2].attrs[j]>>

----------------------------------------------------------------------------
(* compare.by_item_names *)

\* A DataFrame object of the store is [index_col, rows]: index_col is
\* "RangeIndex" as compress_structure leaves it and "item_name" after
\* set_index('item_name', inplace=True).  Item names are taken to be
\* non-missing and unique inside one section table.

SectionOrder == <<"S1", "S2">>

\* The keys of a dict in insertion order (the order of the sheets)
KeysOf(d) == LET In(k) == k \in DOMAIN d IN SelectSeq(SectionOrder, In)

\* Variant of deepcopy that hands back the same objects (no copy is made).
deepcopy_alias(h, d, tag) == [heap |-> h, dict |-> d]

\* copy.deepcopy(cast.data): every DataFrame of the dict is copied into a new
\* object; tag names the copy (df_dict_1 or df_dict_2)
deepcopy(h, d, tag) ==
    LET fresh == {<<tag, d[k][2], k>> : k \in DOMAIN d}
    IN  [heap |-> [id \in DOMAIN h \cup fresh |->
                     IF id \in fresh
                     THEN h[CHOOSE o \in {d[k] : k \in DOMAIN d} : o[3] = id[3]]
                     ELSE h[id]],
         dict |-> [k \in DOMAIN d |-> <<tag, d[k][2], k>>]]

\* Variant of KeyDiff that only looks for keys of the first dict missing in
\* the second.
KeyDiffOneSided(d1, d2) == DOMAIN d1 \ DOMAIN d2

\* line 30: set(df_dict_1.keys()).symmetric_difference(set(df_dict_2.keys()))
KeyDiff(d1, d2) == (DOMAIN d1 \ DOMAIN d2) \cup (DOMAIN d2 \ DOMAIN d1)

\* The index of a frame indexed by item_name, in row order
IndexOf(rows) == [i \in 1..Len(rows) |-> rows[i].item_name]
IndexSet(rows) == {rows[i].item_name : i \in 1..Len(rows)}
RowOf(rows, n) == rows[CHOOSE i \in 1..Len(rows) : rows[i].item_name = n]

\* lines 42-45: df.loc[df.index.difference(other.index), df.columns[:1]];
\* Index.difference returns its result sorted
OnlyIn(rows, other) ==
    LET idx == SortAsc(IndexSet(rows) \ IndexSet(other))
    IN  [i \in 1..Len(idx) |-> [item_name |-> idx[i], item |-> RowOf(rows, idx[i]).item]]

\* line 48: df1.index.intersection(df2.index), in the order of df1
CommonIdx(rows1, rows2) ==
    LET In2(n) == n \in IndexSet(rows2) IN SelectSeq(IndexOf(rows1), In2)

\* A cell of DataFrame.compare(keep_equal=False): NaN where the two sides are
\* equal, else the side's own value.  Tuples are compared by value, a missing
\* element equal to a missing element.
Masked == [na |-> TRUE, v |-> <<>>]
CompareCell(mine, theirs) == IF mine = theirs THEN Masked ELSE [na |-> FALSE, v |-> mine]

\* The two rows of one common item (align_axis=0): the first tagged spec1
\* with the left side's cells, the second tagged spec2 with the right side's
ComparePair(r1, r2, spec1, spec2) ==
    << [item_name |-> r1.item_name, spec |-> spec1, item |-> r1.item,
        attrs |-> [j \in 1..Len(r1.attrs) |-> CompareCell(r1.attrs[j], r2.attrs[j])]],
       [item_name |-> r2.item_name, spec |-> spec2, item |-> r2.item,
        attrs |-> [j \in 1..Len(r2.attrs) |-> CompareCell(r2.attrs[j], r1.attrs[j])]] >>

RECURSIVE ComparePairs(_, _, _, _, _)
ComparePairs(common, rows1, rows2, spec1, spec2) ==
    IF common = <<>> THEN <<>>
    ELSE ComparePair(RowOf(rows1, Head(common)), RowOf(rows2, Head(common)), spec1, spec2)
         \o ComparePairs(Tail(common), rows1, rows2, spec1, spec2)

\* lines 51-66: the compare() of the common rows (keep_shape=True), with the
\* item column put back
CompareRows(rows1, rows2, spec1, spec2) ==
    ComparePairs(CommonIdx(rows1, rows2), rows1, rows2, spec1, spec2)

\* Variant of Duplicated for keep='first': the first row of a group of equal
\* rows is not marked.
DuplicatedKeepFirst(cmp, p) ==
    \E q \in 1..(p - 1) : cmp[q].attrs = cmp[p].attrs

\* line 70: duplicated(subset=columns[1:], keep=False) for row p.  columns[1:]
\* are the attribute columns: item is column 0, item_name and spec are the index.
Duplicated(cmp, p) ==
    \E q \in 1..Len(cmp) : q # p /\ cmp[q].attrs = cmp[p].attrs

\* lines 71 and 78: the rows of cmp at the positions p..Len(cmp) that are left
\* after drop(index[dups]) (marked = FALSE) or drop(index[~dups]) (marked = TRUE)
RECURSIVE RowsFrom(_, _, _)
RowsFrom(cmp, marked, p) ==
    IF p > Len(cmp) THEN <<>>
    ELSE (IF Duplicated(cmp, p) = marked THEN <<cmp[p]>> ELSE <<>>)
         \o RowsFrom(cmp, marked, p + 1)

RowsWhere(cmp, marked) == RowsFrom(cmp, marked, 1)

\* line 81: dropna(axis=1, how='all') keeps the columns that hold a value;
\* an empty frame loses all its columns
AttrCols == <<"threshold_req", "type">>
ColumnsWithValue(rows) ==
    IF Len(rows) = 0 THEN {}
    ELSE {"spec", "item"} \cup
         {AttrCols[j] : j \in {i \in 1..Len(AttrCols) :
                                 \E p \in 1..Len(rows) : ~rows[p].attrs[i].na}}
AllColumns == {"spec", "item"} \cup {AttrCols[j] : j \in 1..Len(AttrCols)}

\* lines 41-86 for one section, after both frames are indexed by item_name
compare_section(rows1, rows2, spec1, spec2) ==
    LET cmp == CompareRows(rows1, rows2, spec1, spec2)
        same == RowsWhere(cmp, TRUE)
    IN  [same_same |-> [columns |-> ColumnsWithValue(same), rows |-> same],
         same_diff |-> [columns |-> AllColumns, rows |-> RowsWhere(cmp, FALSE)],
         only_1 |-> [columns |-> {"item"}, rows |-> OnlyIn(rows1, rows2)],
         only_2 |-> [columns |-> {"item"}, rows |-> OnlyIn(rows2, rows1)]]

\* df.set_index('item_name', inplace=True) on the object id: KeyError when
\* the frame has no such column (any more)
set_index(h, id) ==
    IF h[id].index_col # "RangeIndex"
    THEN [err |-> "KeyError", heap |-> h]
    ELSE [err |-> "none", heap |-> [h EXCEPT ![id].index_col = "item_name"]]

\* lines 35-86: the loop over the sections, [err, heap, lists]
RECURSIVE compare_loop(_, _, _, _, _, _, _)
compare_loop(h, keys, d1, d2, spec1, spec2, lists) ==
    IF keys = <<>> THEN [err |-> "none", heap |-> h, lists |-> lists]
    ELSE LET k == Head(keys)
             s1 == set_index(h, d1[k])
             s2 == set_index(s1.heap, d2[k])
         IN  IF s1.err # "none" THEN [err |-> s1.err, heap |-> s1.heap, lists |-> <<>>]
             ELSE IF s2.err # "none" THEN [err |-> s2.err, heap |-> s2.heap, lists |-> <<>>]
             ELSE compare_loop(s2.heap, Tail(keys), d1, d2, spec1, spec2,
                      Append(lists, compare_section(s2.heap[d1[k]].rows,
                                                    s2.heap[d2[k]].rows, spec1, spec2)))

Buckets == {"same_same", "same_diff", "only_1", "only_2"}

RECURSIVE ConcatRows(_, _)
ConcatRows(lists, b) ==
    IF lists = <<>> THEN <<>> ELSE Head(lists)[b].rows \o ConcatRows(Tail(lists), b)

\* compare._concat_df_lists: pd.concat(..., axis=0) per bucket
concat_df_lists(lists) ==
    [b \in Buckets |->
        [columns |-> UNION {lists[i][b].columns : i \in 1..Len(lists)},
         rows |-> ConcatRows(lists, b)]]

\* compare._export_to_csv: one file per bucket, named after the two specs
export_to_csv(spec1, spec2) ==
    {<<spec1, spec2, "same_item_names_same_vals", "">>,
     <<spec1, spec2, "same_item_names_diff_vals", "">>,
     <<spec1, spec2, "item_names_only_in_", spec1>>,
     <<spec1, spec2, "item_names_only_in_", spec2>>}

\* by_item_names(cast_1, cast_2, out_dir): [heap, result, written]
by_item_names(h, c1, c2, out_dir) ==
    LET cp1 == deepcopy(h, c1.data, "df_dict_1")
        cp2 == deepcopy(cp1.heap, c2.data, "df_dict_2")
        key_diff == KeyDiff(cp1.dict, cp2.dict)
    IN  IF key_diff # {}
        THEN [heap |-> cp2.heap, written |-> {},
              result |-> [status |-> "ValueError", key_diff |-> key_diff,
                          compared |-> 0, per_section |-> <<>>, tables |-> <<>>]]
        ELSE LET loop == compare_loop(cp2.heap, KeysOf(cp1.dict), cp1.dict, cp2.dict,
                                      c1.spec, c2.spec, <<>>)
             IN  IF loop.err # "none"
                 THEN [heap |-> loop.heap, written |-> {},
                       result |-> [status |-> loop.err, key_diff |-> {},
                                   compared |-> 0, per_section |-> <<>>, tables |-> <<>>]]
                 ELSE [heap |-> loop.heap,
                       written |-> IF out_dir = "existing dir"
                                   THEN export_to_csv(c1.spec, c2.spec) ELSE {},
                       result |-> [status |-> "returned", key_diff |-> {},
                                   compared |-> Len(loop.lists),
                                   per_section |-> loop.lists,
                                   tables |-> concat_df_lists(loop.lists)]]

----------------------------------------------------------------------------
(* The two documents handed to by_item_names *)

TupA == <<Str(<<97>>)>>         \* ('a',)
TupB == <<Str(<<98>>)>>         \* ('b',)
TupC == <<Str(<<99>>)>>         \* ('c',)
TupNaN == <<NaN>>               \* (nan,)

\* The attribute tuples an item can carry: three values of the first
\* attribute column, a missing second one
ItemValues == {<<TupA, TupNaN>>, <<TupB, TupNaN>>, <<TupC, TupNaN>>}

\* Item i has the name 'X', 'Y', ... and the item key '9', '8', ...:
\* compress_structure leaves the rows sorted by item key
ItemNames == 1..MaxItems
NameOf(i) == Str(<<87 + i>>)
ItemOf(i) == Str(<<58 - i>>)

\* The compressed table that holds the items of DOMAIN f with the values f
TableOf(f) ==
    LET keys == SortAsc({ItemOf(i) : i \in DOMAIN f})
    IN  [index_col |-> "RangeIndex",
         rows |-> [p \in 1..Len(keys) |->
                     LET i == CHOOSE n \in DOMAIN f : ItemOf(n) = keys[p]
                     IN  [label |-> p - 1, item |-> keys[p], item_name |-> NameOf(i),
                          attrs |-> f[i]]]]

\* Section S1 holds any table of at most MaxItems items, section S2 one item
FirstTables == {TableOf(f) : f \in UNION {[N -> ItemValues] : N \in SUBSET ItemNames}}
SecondTable == TableOf([i \in {1} |-> <<TupA, TupNaN>>])

\* The dicts of tables a document with the sections D can hold
DataDicts(D) == {[k \in D |-> IF k = "S1" THEN t ELSE SecondTable] : t \in FirstTables}

SectionSets == (SUBSET {"S1", "S2"}) \ {{}}

SpecName(c) == IF c = 1 THEN "NRB-v5.0" ELSE "NRB-v5.5"

\* The CASTMeta object c with the sections D: data[k] is the object <<"cast", c, k>>
CastOf(c, D) == [spec |-> SpecName(c), data |-> [k \in D |-> <<"cast", c, k>>]]

InitDiff ==
    /\ raw = NoDict /\ df_t = NoDict /\ data = NoDict
    /\ pc = "done" /\ exc = "none"
    /\ \E D1, D2 \in SectionSets :
         /\ casts = <<CastOf(1, D1), CastOf(2, D2)>>
         /\ \E t1 \in DataDicts(D1), t2 \in DataDicts(D2) :
              heap = [id \in {<<"cast", 1, k>> : k \in D1}
                             \cup {<<"cast", 2, k>> : k \in D2} |->
                        IF id[2] = 1 THEN t1[id[3]] ELSE t2[id[3]]]
    /\ loaded = heap
    /\ result = [status |-> "none"]
    /\ first = [status |-> "none"]
    /\ repeated = FALSE
    /\ files = {}

\* One call by_item_names(cast_1, cast_2, out_dir).  The copies made by the
\* call are dropped when it ends; the store keeps the documents' objects.
ByItemNames(out_dir) ==
    LET call == by_item_names(heap, casts[1], casts[2], out_dir)
    IN  /\ heap' = [id \in DOMAIN heap |-> call.heap[id]]
        /\ result' = call.result
        /\ first' = IF first.status = "none" THEN call.result ELSE first
        /\ repeated' = (first.status # "none")
        /\ files' = files \cup call.written
        /\ UNCHANGED <<loaded, casts>>
        /\ UNCHANGED convertVars

CallWithoutOutDir == ByItemNames("None")
CallWithOutDir == ByItemNames("existing dir")
CallWithMissingOutDir == ByItemNames("missing dir")

NextDiff == CallWithoutOutDir \/ CallWithOutDir \/ CallWithMissingOutDir

SpecDiff == InitDiff /\ [][NextDiff]_vars

----------------------------------------------------------------------------
(* Properties of by_item_names *)

Called == result.status # "none"
Returned == result.status = "returned"

Sections1 == DOMAIN casts[1].data
Sections2 == DOMAIN casts[2].data

\* The i-th section compared, and the rows of its two tables as loaded
SectionAt(i) == KeysOf(casts[1].data)[i]
LeftRows(i) == loaded[casts[1].data[SectionAt(i)]].rows
RightRows(i) == loaded[casts[2].data[SectionAt(i)]].rows

\* The rows of bucket b for the i-th section, and the item keys they carry
BucketRows(i, b) == result.per_section[i][b].rows
RowSet(rows) == {rows[p] : p \in 1..Len(rows)}
KeysIn(i, b) == {r.item_name : r \in RowSet(BucketRows(i, b))}

\* C1: every item key of the left or the right table of a section is in
\* exactly one of the four buckets of that section.
C1_PartitionExactlyOne ==
    Returned =>
        \A i \in 1..Len(result.per_section) :
            \A n \in IndexSet(LeftRows(i)) \cup IndexSet(RightRows(i)) :
                Cardinality({b \in Buckets : n \in KeysIn(i, b)}) = 1

\* C4: every item key with a row in same_diff has exactly two rows there, one
\* tagged with the left and one with the right spec identity.
C4_PairedRows ==
    Returned =>
        \A i \in 1..Len(result.per_section) :
            \A n \in KeysIn(i, "same_diff") :
                LET mine == {r \in RowSet(BucketRows(i, "same_diff")) : r.item_name = n}
                IN  /\ Cardinality(mine) = 2
                    /\ {r.spec : r \in mine} = {casts[1].spec, casts[2].spec}

\* The combined table of the common rows of the i-th section
Combined(i) == CompareRows(LeftRows(i), RightRows(i), casts[1].spec, casts[2].spec)

\* Two common items that both differ, with the same left and the same right value
SameDifference(i, x, y) ==
    /\ x # y
    /\ {x, y} \subseteq IndexSet(LeftRows(i)) \cap IndexSet(RightRows(i))
    /\ RowOf(LeftRows(i), x).attrs = RowOf(LeftRows(i), y).attrs
    /\ RowOf(RightRows(i), x).attrs = RowOf(RightRows(i), y).attrs
    /\ RowOf(LeftRows(i), x).attrs # RowOf(RightRows(i), x).attrs

C2_SectionMismatch ==
    Called =>
        IF Sections1 # Sections2
        THEN /\ result.status = "ValueError"
             /\ result.key_diff = (Sections1 \ Sections2) \cup (Sections2 \ Sections1)
             /\ result.compared = 0
             /\ result.tables = <<>>
             /\ files = {}
        ELSE result.status # "ValueError"

\* C2 witness: each document has a section the other lacks, and the call,
\* given an existing output directory, raised.
C2_Witness ==
    /\ Called
    /\ Sections1 \ Sections2 # {} /\ Sections2 \ Sections1 # {}
    /\ result.status = "ValueError"
    /\ result.key_diff = {"S1", "S2"}

\* C5: by_item_names leaves the tables of both documents as they were loaded,
\* and every call returns what the first call returned.
C5_InputsUnchanged ==
    /\ heap = loaded
    /\ Called => result = first

\* C5 witness: a second call on the same two documents has returned tables.
C5_Witness ==
    /\ repeated /\ Returned
    /\ \E i \in 1..Len(result.per_section) : Len(Combined(i)) > 0

====
